---- MODULE Spec2Model ----
(***************************************************************************)
(* channelblam: per-channel moderation for a chat workspace.               *)
(*                                                                         *)
(* The program state is the Policy Store (three sqlite tables, src/db.py)  *)
(* and the position of a membership sweep that is in progress.  The chat   *)
(* platform, the identity oracle and the bot classifier are outside the    *)
(* program: every answer they give is an input of the step that asks.      *)
(* The history variables ev, kicks, invites and reply record what the last *)
(* step was given and what it sent out.                                    *)
(***************************************************************************)
EXTENDS Integers, Sequences, FiniteSets, TLC

\* ------------------------------------------------------------------ universe
ADMIN_ID == "ADMIN"
BOT_USER_ID == "BOT"
Users == {ADMIN_ID, BOT_USER_ID, "U1", "U2"}
\* "C1" is a public channel (its id starts with C), "G1" a private one.
\* The store holds both; commands and events are driven on Channels.
AllChannels == {"C1", "G1"}
Channels == {"C1"}
\* Who types commands: the root operator and one ordinary user.
Actors == {ADMIN_ID, "U1"}
\* The order in which the platform lists members.
UserOrder == <<ADMIN_ID, BOT_USER_ID, "U1", "U2">>

\* The platform lists at most MaxMembers members for a channel.
MaxMembers == 3
\* Members per page of conversations.members (limit=1000 in the source).
PageLimit == 2
\* Rows held by channel_blammed and channel_whitelist together.
MaxRows == 2

NONE == "-"

VARIABLES
    channel_filters,    \* channel -> idv_required_level (0 when no row)
    channel_blammed,    \* rows <<channel_id, user_id>>
    channel_whitelist,  \* rows <<channel_id, user_id>>
    task,               \* the sweep in progress, or the idle record
    ev,                 \* the last step: its kind and the inputs it used
    kicks,              \* conversations.kick requests of the last step, in order
    invites,            \* conversations.invite requests of the last step
    reply               \* what the last step answered to the invoker

store == <<channel_filters, channel_blammed, channel_whitelist>>
vars == <<channel_filters, channel_blammed, channel_whitelist, task, ev, kicks,
          invites, reply>>

\* ------------------------------------------------------------------ src/db.py
get_idv_required_level(channel_id) == channel_filters[channel_id]

set_idv_required_level(channel_id, level) ==
    [channel_filters EXCEPT ![channel_id] = level]

add_blam(channel_id, user_id) == channel_blammed \cup {<<channel_id, user_id>>}

\* The callers only test membership; the ORDER BY of the query is not kept.
list_blammed(channel_id) == {r[2] : r \in {x \in channel_blammed : x[1] = channel_id}}

remove_blam_from(rows, channel_id, user_id) == rows \ {<<channel_id, user_id>>}

remove_blam(channel_id, user_id) ==
    remove_blam_from(channel_blammed, channel_id, user_id)

add_whitelist_to(rows, channel_id, user_id) == rows \cup {<<channel_id, user_id>>}

add_whitelist(channel_id, user_id) ==
    add_whitelist_to(channel_whitelist, channel_id, user_id)

remove_whitelist(channel_id, user_id) ==
    channel_whitelist \ {<<channel_id, user_id>>}

list_whitelisted(channel_id) ==
    {r[2] : r \in {x \in channel_whitelist : x[1] = channel_id}}

\* The model keeps the two entry tables within MaxRows rows.
FitsRows(blammed, whitelisted) ==
    Cardinality(blammed) + Cardinality(whitelisted) <= MaxRows

\* ------------------------------------------------------- command-line tokens
\* A user argument is typed as a mention "<@U1|name>" or as the bare id "U1".
\* Lowering either one gives text that is no longer an id.
TokenForms == {"mention", "raw"}

Token(form, user) == [form |-> form, user |-> user]

Lower(token) == [token EXCEPT !.form = "lowered"]

\* token.split("|", 1)[0]: a bare id is kept, a mention loses its tail only.
SplitBar(token) ==
    IF token.form = "mention" THEN [token EXCEPT !.form = "cut"] ELSE token

\* _USER_ID_RE.match: ^[UW][A-Z0-9]{2,}$ matches the bare upper-case id only.
USER_ID_RE_match(token) == token.form = "raw"

_parse_mention(token) ==
    IF token.form # "mention" THEN NONE
    ELSE IF ~USER_ID_RE_match(Token("raw", token.user)) THEN NONE
    ELSE token.user

LevelWords == {"off", "required", "under18"}

LevelNum(level) ==
    CASE level = "off" -> 0
      [] level = "required" -> 1
      [] level = "under18" -> 2
      [] OTHER -> 1

IsPublic(channel_id) == channel_id = "C1"

\* ----------------------------------------------------------------- src/idv.py
\* What the oracle's HTTP endpoint can answer: no answer at all, or a status
\* code with a body that is not JSON, JSON without "result", or JSON with it.
OracleResults == {"verified_eligible", "verified_but_over_18", "not_found"}
OracleBodies == OracleResults \cup {"no_result", "not_json"}
NoLookup == [net |-> NONE, status |-> 0, body |-> NONE]
OracleResponses ==
    {[net |-> "error", status |-> 0, body |-> NONE]} \cup
    {[net |-> "ok", status |-> s, body |-> b] : s \in {200, 500}, b \in OracleBodies}

\* idvstatus on a cache miss: the value returned, "RAISE" when it raises.
\* A non-200 status is logged and the body is read all the same.
idvstatus(response) ==
    IF response.net = "error" THEN "RAISE"
    ELSE IF response.body = "not_json" THEN "RAISE"
    ELSE IF response.body = "no_result" THEN "None"
    ELSE response.body

Statuses == OracleResults \cup {"None"}

is_idved(status) == status \in {"verified_eligible", "verified_but_over_18"}

is_idved_under18Mut(status) == is_idved(status)

is_idved_under18(status) == status = "verified_eligible"

\* --------------------------------------------------- conversations.members
Range(s) == {s[i] : i \in 1..Len(s)}

Pos(user_id) == CHOOSE i \in 1..Len(UserOrder) : UserOrder[i] = user_id

\* Duplicate-free listings of at most MaxMembers users, in the platform's order.
MemberLists ==
    {s \in UNION {[1..n -> Users] : n \in 0..MaxMembers} :
        \A i, j \in 1..Len(s) : i < j => Pos(s[i]) < Pos(s[j])}

Min(a, b) == IF a < b THEN a ELSE b

NumPages(list) ==
    IF Len(list) = 0 THEN 1 ELSE (Len(list) + PageLimit - 1) \div PageLimit

\* Page k of the listing; next_cursor 0 stands for the empty cursor.
Paginate(list) ==
    [k \in 1..NumPages(list) |->
        [members |-> SubSeq(list, (k - 1) * PageLimit + 1, Min(k * PageLimit, Len(list))),
         next_cursor |-> IF k < NumPages(list) THEN k + 1 ELSE 0]]

\* One listing as the platform serves it: the pages, and the number of the
\* call that fails with SlackApiError (0: none fails).
PlatformViews ==
    {[pages |-> Paginate(m), failAt |-> f] :
        m \in MemberLists, f \in 0..((MaxMembers + PageLimit - 1) \div PageLimit)}

\* handle_blam's authorization scan: the call number n, the cursor to use.
\* It ends "found", "absent" when the listing ran out, or "error" when a
\* call raised (the loop is left with found still False).
RECURSIVE AuthScan(_, _, _, _, _)
AuthScan(actor_id, pages, failAt, n, cursor) ==
    IF n = failAt THEN "error"
    ELSE IF actor_id \in Range(pages[cursor].members) THEN "found"
    ELSE IF pages[cursor].next_cursor = 0 THEN "absent"
    ELSE AuthScan(actor_id, pages, failAt, n + 1, pages[cursor].next_cursor)

AuthOutcomes ==
    {[actor |-> a, scan |-> AuthScan(a, v.pages, v.failAt, 1, 1)] :
        a \in Actors, v \in PlatformViews}

AuthorizedMut(actor_id, found) == TRUE

Authorized(actor_id, found) == ~(actor_id # ADMIN_ID /\ ~found)

\* The enumeration loop of the sweeps and of "whitelist channel": the users
\* gathered, or ok = FALSE when a call raised.
RECURSIVE ListMembers(_, _, _, _, _)
ListMembers(pages, failAt, n, cursor, users) ==
    IF n = failAt THEN [ok |-> FALSE, users |-> <<>>]
    ELSE IF pages[cursor].next_cursor = 0
         THEN [ok |-> TRUE, users |-> users \o pages[cursor].members]
    ELSE ListMembers(pages, failAt, n + 1, pages[cursor].next_cursor,
                     users \o pages[cursor].members)

ListOutcomes == {ListMembers(v.pages, v.failAt, 1, 1, <<>>) : v \in PlatformViews}

\* _is_channel_manager (src/main.py): the actor of a leave event is looked
\* up in the channel's member listing.
RECURSIVE ManagerScan(_, _, _, _, _)
ManagerScan(user_id, pages, failAt, n, cursor) ==
    IF n = failAt THEN FALSE
    ELSE IF user_id \in Range(pages[cursor].members) THEN TRUE
    ELSE IF pages[cursor].next_cursor = 0 THEN FALSE
    ELSE ManagerScan(user_id, pages, failAt, n + 1, pages[cursor].next_cursor)

_is_channel_manager(user_id, view) ==
    IF user_id = NONE THEN FALSE
    ELSE ManagerScan(user_id, view.pages, view.failAt, 1, 1)

ManagerOutcomes ==
    {[actor |-> a, manager |-> _is_channel_manager(a, v)] :
        a \in Users \cup {NONE}, v \in PlatformViews}

\* ------------------------------------------------------------------- state
Idle ==
    [mode |-> "idle", channel |-> NONE, actor |-> NONE, levelnum |-> 0,
     users |-> <<>>, whitelisted |-> {}, toblam |-> <<>>, seen |-> <<>>]

\* What one step was given: the fields a step does not use keep their default.
Event(kind, channel_id) ==
    [kind |-> kind, channel |-> channel_id, actor |-> NONE, scan |-> NONE,
     user |-> NONE, levelnum |-> -1, old_level |-> -1, is_bot |-> NONE,
     resp |-> NoLookup, verdict |-> NONE, db |-> NONE, sweeps |-> 0,
     count |-> -1, manager |-> FALSE, role |-> FALSE, users |-> <<>>]

\* A /blam command of actor_id past its authorization scan, about to read its
\* text.
Pending(channel_id, actor_id) ==
    [Idle EXCEPT !.mode = "command", !.channel = channel_id, !.actor = actor_id]

Init ==
    /\ channel_filters = [c \in AllChannels |-> 0]
    /\ channel_blammed = {}
    /\ channel_whitelist = {}
    /\ task = Idle
    /\ ev = Event("start", NONE)
    /\ kicks = <<>>
    /\ invites = {}
    /\ reply = NONE

\* conversations.join is called for public channels only; the command goes
\* on when it succeeds or fails with method_not_supported_for_channel_type.
JoinResults(channel_id) ==
    IF IsPublic(channel_id) THEN {"ok", "method_not_supported", "error"} ELSE {NONE}

JoinPasses(join) == join # "error"

\* What every subcommand but the empty one goes through after the
\* authorization scan: the join.
Entered(channel_id) ==
    /\ task.mode = "command"
    /\ task.channel = channel_id
    /\ \E join \in JoinResults(channel_id) : JoinPasses(join)

NoEffect == kicks' = <<>> /\ invites' = {} /\ task' = Idle

\* ----------------------------------------------- handle_blam (src/main.py)
\* The authorization scan of a command typed by actor_id: scan is how the
\* scan of the member listing ended.
CmdAuth(channel_id, actor_id, scan) ==
    /\ task.mode = "idle"
    /\ [actor |-> actor_id, scan |-> scan] \in AuthOutcomes
    /\ IF Authorized(actor_id, scan = "found")
       THEN /\ ev' = [Event("authorized", channel_id) EXCEPT
                          !.actor = actor_id, !.scan = scan]
            /\ reply' = NONE
            /\ task' = Pending(channel_id, actor_id)
       ELSE /\ ev' = [Event("denied", channel_id) EXCEPT
                          !.actor = actor_id, !.scan = scan]
            /\ reply' = "You are not authorized to use this command."
            /\ task' = Idle
    /\ kicks' = <<>>
    /\ invites' = {}
    /\ UNCHANGED store

\* No text at all is answered before the join, "help" and "usage" after it.
CmdHelp(channel_id) ==
    /\ task.mode = "command"
    /\ task.channel = channel_id
    /\ ev' = Event("help", channel_id)
    /\ reply' = "HELP_TEXT"
    /\ NoEffect
    /\ UNCHANGED store

\* respond() is not awaited on this path: nothing is answered.
CmdJoinFailed(channel_id) ==
    /\ task.mode = "command"
    /\ task.channel = channel_id
    /\ \E join \in JoinResults(channel_id) : ~JoinPasses(join)
    /\ ev' = Event("join_failed", channel_id)
    /\ reply' = NONE
    /\ NoEffect
    /\ UNCHANGED store

CmdList(channel_id) ==
    /\ Entered(channel_id)
    /\ ev' = Event("list", channel_id)
    /\ reply' = IF list_blammed(channel_id) = {}
                THEN "No one is blammed in this channel."
                ELSE "Blammed users"
    /\ NoEffect
    /\ UNCHANGED store

\* /blam remove <token>
CmdUnblam(channel_id, token) ==
    /\ Entered(channel_id)
    /\ LET target_user == _parse_mention(token) IN
        IF target_user = NONE
        THEN /\ ev' = Event("unblam", channel_id)
             /\ reply' = "Please mention a user"
             /\ UNCHANGED store
        ELSE /\ ev' = [Event("unblam", channel_id)
                           EXCEPT !.user = target_user]
             /\ channel_blammed' = remove_blam(channel_id, target_user)
             /\ reply' = "Unblammed"
             /\ UNCHANGED <<channel_filters, channel_whitelist>>
    /\ NoEffect

\* The kick of the explicit blam: sent for whoever was named.
BlamKicks(channel_id, target_user) == <<<<channel_id, target_user>>>>

\* /blam <token> and /blam add <token>: the entry is stored, then the kick is
\* sent; when add_blam raises (dbok = FALSE) the kick is skipped.
CmdBlam(channel_id, token) ==
    /\ Entered(channel_id)
    /\ LET target_user == _parse_mention(token) IN
        IF target_user = NONE
        THEN /\ ev' = Event("blam", channel_id)
             /\ reply' = "Please mention a user"
             /\ kicks' = <<>>
             /\ UNCHANGED store
        ELSE \E dbok \in BOOLEAN :
             IF ~dbok
             THEN /\ ev' = [Event("blam", channel_id)
                                EXCEPT !.user = target_user, !.db = "error"]
                  /\ reply' = "Error blamming."
                  /\ kicks' = <<>>
                  /\ UNCHANGED store
             ELSE /\ FitsRows(add_blam(channel_id, target_user), channel_whitelist)
                  /\ ev' = [Event("blam", channel_id)
                                EXCEPT !.user = target_user, !.db = "ok",
                                       !.actor = task.actor]
                  /\ channel_blammed' = add_blam(channel_id, target_user)
                  /\ kicks' = BlamKicks(channel_id, target_user)
                  /\ reply' = "Blammed"
                  /\ UNCHANGED <<channel_filters, channel_whitelist>>
    /\ invites' = {}
    /\ task' = Idle

\* /blam whitelist channel: every listed member loses its blam entry and
\* gains a whitelist entry.
WhitelistAllMut(channel_id, users, blammed, whitelisted) ==
    [blammed |-> blammed,
     whitelisted |-> whitelisted \cup {<<channel_id, u>> : u \in Range(users)}]

RECURSIVE WhitelistAll(_, _, _, _)
WhitelistAll(channel_id, users, blammed, whitelisted) ==
    IF users = <<>> THEN [blammed |-> blammed, whitelisted |-> whitelisted]
    ELSE WhitelistAll(channel_id, Tail(users),
                      remove_blam_from(blammed, channel_id, Head(users)),
                      add_whitelist_to(whitelisted, channel_id, Head(users)))

CmdWhitelistChannel(channel_id, listing) ==
    /\ Entered(channel_id)
    /\ listing \in ListOutcomes
    /\ IF ~listing.ok
       THEN /\ ev' = Event("whitelist_channel", channel_id)
            /\ reply' = "Error whitelisting channel."
            /\ UNCHANGED store
       ELSE LET after == WhitelistAll(channel_id, listing.users, channel_blammed,
                                      channel_whitelist) IN
            /\ FitsRows(after.blammed, after.whitelisted)
            /\ ev' = [Event("whitelist_channel", channel_id) EXCEPT
                          !.users = listing.users,
                          !.count = Cardinality(channel_blammed \ after.blammed)]
            /\ channel_blammed' = after.blammed
            /\ channel_whitelist' = after.whitelisted
            /\ reply' = "Whitelisted all users currently in the channel."
            /\ UNCHANGED channel_filters
    /\ NoEffect

\* /blam whitelist remove <token>: after the removal the handler falls through
\* to the single-user branch with the word "remove" and answers its usage line.
CmdWhitelistRemove(channel_id, token) ==
    /\ Entered(channel_id)
    /\ LET user_token == SplitBar(token) IN
        IF ~USER_ID_RE_match(user_token)
        THEN /\ ev' = Event("whitelist_remove", channel_id)
             /\ reply' = "Please mention a user"
             /\ UNCHANGED store
        ELSE /\ ev' = [Event("whitelist_remove", channel_id)
                           EXCEPT !.user = user_token.user]
             /\ channel_whitelist' = remove_whitelist(channel_id, user_token.user)
             /\ reply' = "Removed whitelist; Please mention a user"
             /\ UNCHANGED <<channel_filters, channel_blammed>>
    /\ NoEffect

\* /blam whitelist <token>: the token is lowered before it is matched.
CmdWhitelistAdd(channel_id, token) ==
    /\ Entered(channel_id)
    /\ LET user_token == SplitBar(Lower(token)) IN
        IF ~USER_ID_RE_match(user_token)
        THEN /\ ev' = Event("whitelist_add", channel_id)
             /\ reply' = "Please mention a user"
             /\ UNCHANGED store
        ELSE /\ FitsRows(remove_blam(channel_id, user_token.user),
                         add_whitelist(channel_id, user_token.user))
             /\ ev' = [Event("whitelist_add", channel_id)
                           EXCEPT !.user = user_token.user]
             /\ channel_blammed' = remove_blam(channel_id, user_token.user)
             /\ channel_whitelist' = add_whitelist(channel_id, user_token.user)
             /\ reply' = "Whitelisted"
             /\ UNCHANGED channel_filters
    /\ NoEffect

\* ------------------------------------------------------------- the sweeps
StartSweep(mode, channel_id, levelnum, users) ==
    [mode |-> mode, channel |-> channel_id, levelnum |-> levelnum, users |-> users,
     whitelisted |-> IF mode = "test" THEN list_whitelisted(channel_id) ELSE {},
     toblam |-> <<>>, seen |-> <<>>]

\* /blam idv test <word>: the dry run lists the members and reads the
\* whitelist once; the members are then evaluated one by one.
CmdIdvTest(channel_id, word) ==
    /\ Entered(channel_id)
    /\ kicks' = <<>>
    /\ invites' = {}
    /\ UNCHANGED store
    /\ IF word \notin LevelWords
       THEN /\ ev' = Event("idv_test", channel_id)
            /\ reply' = "Usage: /blam idv test"
            /\ task' = Idle
       ELSE /\ ev' = [Event("idv_test", channel_id)
                          EXCEPT !.levelnum = LevelNum(word)]
            /\ \E listing \in ListOutcomes :
                IF ~listing.ok
                THEN /\ reply' = "Error testing IDV requirement."
                     /\ task' = Idle
                ELSE /\ reply' = NONE
                     /\ task' = StartSweep("test", channel_id, LevelNum(word),
                                           listing.users)

\* The transition rule of the policy-set command.
SweepDueMut(old_level, levelnum) == old_level # levelnum

SweepDue(old_level, levelnum) == old_level = 0 /\ levelnum > 0

\* The first test of the policy-set command: nothing to do.
AlreadySetMut(old_level, levelnum) == FALSE

AlreadySet(old_level, levelnum) == old_level = levelnum

\* /blam idv <word>: dbok = FALSE is set_idv_required_level raising.
CmdIdvSet(channel_id, word) ==
    /\ Entered(channel_id)
    /\ kicks' = <<>>
    /\ invites' = {}
    /\ UNCHANGED <<channel_blammed, channel_whitelist>>
    /\ IF word \notin LevelWords
       THEN /\ ev' = Event("idv_set", channel_id)
            /\ reply' = "Usage: /blam idv"
            /\ task' = Idle
            /\ UNCHANGED channel_filters
       ELSE LET levelnum == LevelNum(word)
                old_level == get_idv_required_level(channel_id)
                due == SweepDue(old_level, levelnum)
            IN
            IF AlreadySet(old_level, levelnum)
            THEN /\ ev' = [Event("idv_set", channel_id)
                               EXCEPT !.levelnum = levelnum, !.old_level = old_level]
                 /\ reply' = "IDV requirement is already set"
                 /\ task' = Idle
                 /\ UNCHANGED channel_filters
            ELSE \E dbok \in BOOLEAN :
                 /\ ev' = [Event("idv_set", channel_id)
                               EXCEPT !.levelnum = levelnum, !.old_level = old_level,
                                      !.db = IF dbok THEN "ok" ELSE "error",
                                      !.sweeps = IF due THEN 1 ELSE 0]
                 /\ channel_filters' =
                        IF dbok THEN set_idv_required_level(channel_id, levelnum)
                        ELSE channel_filters
                 /\ reply' = IF dbok THEN "Set IDV requirement"
                             ELSE "Error setting IDV requirement."
                 /\ IF due
                    THEN \E listing \in ListOutcomes :
                         task' = IF listing.ok
                                 THEN StartSweep("live", channel_id, levelnum,
                                                 listing.users)
                                 ELSE Idle
                    ELSE task' = Idle

BotWord(is_bot) == IF is_bot THEN "bot" ELSE "human"

VerdictWord(ok) == IF ok THEN "pass" ELSE "fail"

\* The tier check of a sweep: is_idved for level 1, is_idved_under18 for 2.
TierOk(levelnum, status) ==
    IF levelnum = 1 THEN is_idved(status) ELSE is_idved_under18(status)

\* Live sweep, one member: whether the loop body reaches the identity lookup.
LiveLooksUpMut(channel_id, user_id, is_bot) ==
    /\ ~is_bot
    /\ user_id \notin list_whitelisted(channel_id)

LiveLooksUp(channel_id, user_id, is_bot) ==
    /\ ~is_bot
    /\ user_id \notin list_whitelisted(channel_id)
    /\ user_id # ADMIN_ID

Observation(user_id, is_bot, verdict) ==
    [user |-> user_id, is_bot |-> is_bot, verdict |-> verdict]

NextUser == task.users[Len(task.seen) + 1]

\* One turn of the loop of the live sweep: is_bot is what user_is_bot
\* returned, the response what the oracle answered when it was asked.
SweepStep(is_bot) ==
    /\ task.mode = "live"
    /\ Len(task.seen) < Len(task.users)
    /\ LET user_id == NextUser
           base == [Event("sweep_step", task.channel) EXCEPT
                        !.user = user_id, !.is_bot = BotWord(is_bot),
                        !.levelnum = task.levelnum]
       IN
       IF ~LiveLooksUp(task.channel, user_id, is_bot)
       THEN /\ ev' = base
            /\ task' = [task EXCEPT
                   !.seen = Append(@, Observation(user_id, BotWord(is_bot), NONE))]
       ELSE \E response \in OracleResponses :
            LET status == idvstatus(response) IN
            IF status = "RAISE"
            THEN /\ ev' = [base EXCEPT !.kind = "sweep_failed", !.resp = response,
                                       !.verdict = "RAISE"]
                 /\ task' = Idle
            ELSE LET ok == TierOk(task.levelnum, status) IN
                 /\ ev' = [base EXCEPT !.verdict = VerdictWord(ok)]
                 /\ task' = [task EXCEPT
                        !.seen = Append(@, Observation(user_id, BotWord(is_bot),
                                                       VerdictWord(ok))),
                        !.toblam = IF ok THEN @ ELSE Append(@, user_id)]
    /\ kicks' = <<>>
    /\ invites' = {}
    /\ reply' = NONE
    /\ UNCHANGED store

\* asyncio.gather over toblam: one _kick_if_possible per flagged user.
SweepKicksMut(channel_id, toblam) ==
    IF get_idv_required_level(channel_id) = 0 THEN <<>>
    ELSE [i \in 1..Len(toblam) |-> <<channel_id, toblam[i]>>]

SweepKicks(channel_id, toblam) ==
    [i \in 1..Len(toblam) |-> <<channel_id, toblam[i]>>]

SweepFinish ==
    /\ task.mode = "live"
    /\ Len(task.seen) = Len(task.users)
    /\ ev' = [Event("sweep_done", task.channel) EXCEPT
                  !.levelnum = task.levelnum, !.count = Len(task.users)]
    /\ kicks' = SweepKicks(task.channel, task.toblam)
    /\ invites' = {}
    /\ reply' = NONE
    /\ task' = Idle
    /\ UNCHANGED store

\* needs_kick of the dry run, one member.
TestStep(is_bot) ==
    /\ task.mode = "test"
    /\ Len(task.seen) < Len(task.users)
    /\ LET user_id == NextUser
           base == [Event("test_step", task.channel) EXCEPT
                        !.user = user_id, !.levelnum = task.levelnum]
       IN
       IF user_id = ADMIN_ID \/ user_id \in task.whitelisted
       THEN /\ ev' = base
            /\ reply' = NONE
            /\ task' = [task EXCEPT
                   !.seen = Append(@, Observation(user_id, NONE, NONE))]
       ELSE IF is_bot \/ task.levelnum = 0
       THEN /\ ev' = [base EXCEPT !.is_bot = BotWord(is_bot)]
            /\ reply' = NONE
            /\ task' = [task EXCEPT
                   !.seen = Append(@, Observation(user_id, BotWord(is_bot), NONE))]
       ELSE \E response \in OracleResponses :
            LET status == idvstatus(response) IN
            IF status = "RAISE"
            THEN /\ ev' = [base EXCEPT !.kind = "test_failed",
                                       !.is_bot = BotWord(is_bot),
                                       !.resp = response, !.verdict = "RAISE"]
                 /\ reply' = "Error testing IDV requirement."
                 /\ task' = Idle
            ELSE LET ok == TierOk(task.levelnum, status) IN
                 /\ ev' = [base EXCEPT !.is_bot = BotWord(is_bot),
                                       !.verdict = VerdictWord(ok)]
                 /\ reply' = NONE
                 /\ task' = [task EXCEPT
                        !.seen = Append(@, Observation(user_id, BotWord(is_bot),
                                                       VerdictWord(ok))),
                        !.toblam = IF ok THEN @ ELSE Append(@, user_id)]
    /\ kicks' = <<>>
    /\ invites' = {}
    /\ UNCHANGED store

\* The dry run answers with the number of flagged members and sends nothing.
TestKicksMut(channel_id, toblam) == SweepKicks(channel_id, toblam)

TestKicks(channel_id, toblam) == <<>>

TestFinish ==
    /\ task.mode = "test"
    /\ Len(task.seen) = Len(task.users)
    /\ ev' = [Event("test_done", task.channel) EXCEPT
                  !.levelnum = task.levelnum, !.count = Len(task.toblam)]
    /\ kicks' = TestKicks(task.channel, task.toblam)
    /\ invites' = {}
    /\ reply' = "users would be kicked"
    /\ task' = Idle
    /\ UNCHANGED store

\* ------------------------------------ handle_member_joined_channel (main.py)
\* Whether the handler gets as far as user_is_bot.
JoinCallsClassifier(channel_id, user_id) ==
    /\ user_id \notin list_whitelisted(channel_id)
    /\ user_id = ADMIN_ID \/ user_id \notin list_blammed(channel_id)
    /\ get_idv_required_level(channel_id) > 0

JoinDecisionMut(channel_id, user_id, is_bot, status) ==
    LET blam_ok == user_id = ADMIN_ID \/ user_id \notin list_blammed(channel_id)
        level == get_idv_required_level(channel_id)
    IN
    IF blam_ok /\ level > 0 /\ is_bot THEN "return"
    ELSE IF blam_ok /\ level > 0 /\ status = "RAISE" THEN "raise"
    ELSE LET idv_ok == IF blam_ok /\ level = 1 THEN is_idved(status)
                       ELSE IF blam_ok /\ level = 2 THEN is_idved_under18(status)
                       ELSE TRUE
         IN IF blam_ok /\ idv_ok THEN "return" ELSE "kick"

\* How the handler ends for user_id: "return", "kick", or "raise" when the
\* identity lookup raised.  is_bot and status are read only where the code
\* makes the call.
JoinDecision(channel_id, user_id, is_bot, status) ==
    IF user_id \in list_whitelisted(channel_id) THEN "return"
    ELSE
    LET blam_ok == user_id = ADMIN_ID \/ user_id \notin list_blammed(channel_id)
        level == get_idv_required_level(channel_id)
    IN
    IF blam_ok /\ level > 0 /\ is_bot THEN "return"
    ELSE IF blam_ok /\ level > 0 /\ status = "RAISE" THEN "raise"
    ELSE LET idv_ok == IF blam_ok /\ level = 1 THEN is_idved(status)
                       ELSE IF blam_ok /\ level = 2 THEN is_idved_under18(status)
                       ELSE TRUE
         IN IF blam_ok /\ idv_ok THEN "return" ELSE "kick"

JoinKicks(channel_id, user_id, outcome) ==
    IF outcome = "kick" THEN <<<<channel_id, user_id>>>> ELSE <<>>

\* The event's authorizations[0].user_id is the automation identity: when it
\* is the one who joined, the operator is invited first.
MemberJoined(channel_id, user_id) ==
    /\ task.mode = "idle"
    /\ LET base == [Event("member_joined", channel_id) EXCEPT
                        !.user = user_id,
                        !.levelnum = get_idv_required_level(channel_id)]
       IN
       IF ~JoinCallsClassifier(channel_id, user_id)
       THEN LET outcome == JoinDecision(channel_id, user_id, FALSE, "None") IN
            /\ ev' = base
            /\ kicks' = JoinKicks(channel_id, user_id, outcome)
            /\ reply' = NONE
       ELSE \E is_bot \in BOOLEAN :
            IF is_bot
            THEN LET outcome == JoinDecision(channel_id, user_id, TRUE, "None") IN
                 /\ ev' = [base EXCEPT !.is_bot = "bot"]
                 /\ kicks' = JoinKicks(channel_id, user_id, outcome)
                 /\ reply' = NONE
            ELSE \E response \in OracleResponses :
                 LET status == idvstatus(response)
                     outcome == JoinDecision(channel_id, user_id, FALSE, status)
                 IN
                 /\ ev' = [base EXCEPT !.is_bot = "human", !.resp = response,
                                       !.verdict = status]
                 /\ kicks' = JoinKicks(channel_id, user_id, outcome)
                 /\ reply' = IF outcome = "raise" THEN "RAISE" ELSE NONE
    /\ invites' = IF user_id = BOT_USER_ID THEN {<<channel_id, ADMIN_ID>>} ELSE {}
    /\ task' = Idle
    /\ UNCHANGED store

\* -------------------------------------- handle_member_left_channel (main.py)
LeftInvitesMut(channel_id, user_id, manager) ==
    IF manager THEN {} ELSE {<<channel_id, user_id>>}

LeftInvites(channel_id, user_id, manager) ==
    IF manager THEN {}
    ELSE IF user_id = BOT_USER_ID THEN {<<channel_id, BOT_USER_ID>>}
    ELSE IF user_id = ADMIN_ID THEN {<<channel_id, ADMIN_ID>>}
    ELSE {}

\* Whether the platform's role assignments (admin.roles.entity.listAssignments,
\* read by _fetch_channel_managers of src/utils.py) can name actor_id a manager
\* of the channel.  The handler does not read them.
ManagerRoles(actor_id) == IF actor_id = NONE THEN {FALSE} ELSE BOOLEAN

\* manager is what _is_channel_manager of src/main.py answered for the actor,
\* role whether the actor holds the manager role.
MemberLeft(channel_id, user_id, actor_id, manager, role) ==
    /\ task.mode = "idle"
    /\ [actor |-> actor_id, manager |-> manager] \in ManagerOutcomes
    /\ role \in ManagerRoles(actor_id)
    /\ ev' = [Event("member_left", channel_id) EXCEPT
                  !.user = user_id, !.actor = actor_id, !.manager = manager,
                  !.role = role]
    /\ invites' = LeftInvites(channel_id, user_id, manager)
    /\ kicks' = <<>>
    /\ reply' = NONE
    /\ task' = Idle
    /\ UNCHANGED store

\* ------------------------------------------------------------ specification
Tokens == {Token(f, u) : f \in TokenForms, u \in Users}

Words == LevelWords \cup {"bogus"}

Next ==
    \/ \E c \in Channels, o \in AuthOutcomes : CmdAuth(c, o.actor, o.scan)
    \/ \E c \in Channels : CmdHelp(c)
    \/ \E c \in Channels : CmdJoinFailed(c)
    \/ \E c \in Channels : CmdList(c)
    \/ \E c \in Channels, t \in Tokens :
          CmdUnblam(c, t)
    \/ \E c \in Channels, t \in Tokens :
          CmdBlam(c, t)
    \/ \E c \in Channels, l \in ListOutcomes :
          CmdWhitelistChannel(c, l)
    \/ \E c \in Channels, t \in Tokens :
          CmdWhitelistRemove(c, t)
    \/ \E c \in Channels, t \in Tokens :
          CmdWhitelistAdd(c, t)
    \/ \E c \in Channels, w \in Words :
          CmdIdvTest(c, w)
    \/ \E c \in Channels, w \in Words :
          CmdIdvSet(c, w)
    \/ \E b \in BOOLEAN : SweepStep(b)
    \/ SweepFinish
    \/ \E b \in BOOLEAN : TestStep(b)
    \/ TestFinish
    \/ \E c \in Channels, u \in Users : MemberJoined(c, u)
    \/ \E c \in Channels, u \in Users, m \in ManagerOutcomes, r \in BOOLEAN :
          MemberLeft(c, u, m.actor, m.manager, r)

Spec == Init /\ [][Next]_vars

\* ------------------------------------------- _kick_if_possible (src/main.py)
\* How one kick request is delivered.  The primary attempt posts to the
\* elevated-session endpoint: the credentials may be missing from the
\* environment, the post may fail, the answer may not be JSON, or it is JSON
\* with "ok" true or false.  The secondary attempt is conversations.kick with
\* the personal token.
XoxcOutcomes == {"ok", "not_ok", "no_credentials", "transport", "not_json"}

PersonalOutcomes == {"ok", "not_in_channel", "slack_error", "other_error"}

\* _kick_xoxc: TRUE when it raises.  An answer with "ok" false is logged.
XoxcRaises(outcome) == outcome \in {"no_credentials", "transport", "not_json"}

\* Whether _kick_xoxc got as far as sending its request.
XoxcSends(outcome) == outcome # "no_credentials"

\* The secondary attempt catches SlackApiError only.
PersonalRaises(outcome) == outcome = "other_error"

KickTask(mode, channel_id, user_id, primary, secondary) ==
    [mode |-> mode, channel |-> channel_id, user |-> user_id,
     primary |-> primary, secondary |-> secondary]

\* A handler calls _kick_if_possible(channel_id, user_id).
KickCall(channel_id, user_id) ==
    /\ task.mode \in {"idle", "kick_done"}
    /\ task' = KickTask("kick_primary", channel_id, user_id, NONE, NONE)
    /\ ev' = [Event("kick_call", channel_id) EXCEPT !.user = user_id]
    /\ kicks' = <<>>
    /\ invites' = {}
    /\ reply' = NONE
    /\ UNCHANGED store

\* The primary attempt and what follows it: the return, or the fallback.
KickXoxc(outcome) ==
    /\ task.mode = "kick_primary"
    /\ task' = [task EXCEPT
           !.mode = IF XoxcRaises(outcome) THEN "kick_secondary" ELSE "kick_done",
           !.primary = outcome]
    /\ ev' = [Event("kick_xoxc", task.channel) EXCEPT !.user = task.user]
    /\ kicks' = IF XoxcSends(outcome) THEN <<<<task.channel, task.user>>>> ELSE <<>>
    /\ invites' = {}
    /\ reply' = NONE
    /\ UNCHANGED store

\* The secondary attempt; reply "RAISE" is an exception leaving the call.
KickPersonal(outcome) ==
    /\ task.mode = "kick_secondary"
    /\ task' = [task EXCEPT !.mode = "kick_done", !.secondary = outcome]
    /\ ev' = [Event("kick_personal", task.channel) EXCEPT !.user = task.user]
    /\ kicks' = <<<<task.channel, task.user>>>>
    /\ invites' = {}
    /\ reply' = IF PersonalRaises(outcome) THEN "RAISE" ELSE NONE
    /\ UNCHANGED store

KickNext ==
    \/ \E c \in AllChannels, u \in Users : KickCall(c, u)
    \/ \E o \in XoxcOutcomes : KickXoxc(o)
    \/ \E o \in PersonalOutcomes : KickPersonal(o)

KickSpec == Init /\ [][KickNext]_vars

\* ------------------------------------------- the membership enumerations
\* The loops that page through a channel's members, one call per step, against
\* a platform that may serve a page without members that still carries a
\* cursor.  Page k of a listing holds UserOrder[k] or nobody, and every page
\* but the last carries the cursor of the next.
MaxPages == 3

PageTables ==
    UNION {
        {[k \in 1..n |-> [members |-> IF k \in full THEN <<UserOrder[k]>> ELSE <<>>,
                          next_cursor |-> IF k < n THEN k + 1 ELSE 0]] :
            full \in SUBSET (1..n)} :
        n \in 1..MaxPages}

\* "auth" is the authorization scan of handle_blam, "manager" the scan of
\* _is_channel_manager, "list" the loop of the sweeps and of "whitelist
\* channel" (src/main.py), "edge" _fetch_channel_members (src/utils.py).
EnumKinds == {"auth", "manager", "list", "edge"}

EnumTask(kind, target, pages) ==
    [mode |-> "enum", kind |-> kind, target |-> target, pages |-> pages,
     cursor |-> 1, users |-> <<>>, found |-> FALSE, empty |-> FALSE,
     done |-> FALSE]

EnumStart(kind, target, pages) ==
    /\ task.mode \in {"idle", "enum"}
    /\ task.mode = "enum" => task.done
    /\ kind \in {"auth", "manager"} <=> target # NONE
    /\ task' = EnumTask(kind, target, pages)
    /\ ev' = Event("enum_start", NONE)
    /\ UNCHANGED <<store, kicks, invites, reply>>

\* One turn of a scan: leave when the target is on the page, else follow the
\* cursor for as long as there is one.
ScanCall ==
    /\ task.mode = "enum"
    /\ task.kind \in {"auth", "manager"}
    /\ ~task.done
    /\ LET page == task.pages[task.cursor]
           hit == task.target \in Range(page.members)
       IN task' = [task EXCEPT
              !.found = hit,
              !.empty = page.members = <<>>,
              !.cursor = IF hit THEN @ ELSE page.next_cursor,
              !.done = hit \/ page.next_cursor = 0]
    /\ ev' = Event("enum_call", NONE)
    /\ UNCHANGED <<store, kicks, invites, reply>>

\* One turn of the listing loop of src/main.py: "if not cursor: break".
ListCall ==
    /\ task.mode = "enum"
    /\ task.kind = "list"
    /\ ~task.done
    /\ LET page == task.pages[task.cursor] IN
       task' = [task EXCEPT
              !.users = @ \o page.members,
              !.empty = page.members = <<>>,
              !.cursor = page.next_cursor,
              !.done = page.next_cursor = 0]
    /\ ev' = Event("enum_call", NONE)
    /\ UNCHANGED <<store, kicks, invites, reply>>

\* One turn of _fetch_channel_members: "if not marker or not results: break".
EdgeCall ==
    /\ task.mode = "enum"
    /\ task.kind = "edge"
    /\ ~task.done
    /\ LET page == task.pages[task.cursor] IN
       task' = [task EXCEPT
              !.users = @ \o page.members,
              !.empty = page.members = <<>>,
              !.cursor = page.next_cursor,
              !.done = page.next_cursor = 0 \/ page.members = <<>>]
    /\ ev' = Event("enum_call", NONE)
    /\ UNCHANGED <<store, kicks, invites, reply>>

EnumNext ==
    \/ \E k \in EnumKinds, t \in Users \cup {NONE}, p \in PageTables :
          EnumStart(k, t, p)
    \/ ScanCall
    \/ ListCall
    \/ EdgeCall

EnumSpec == Init /\ [][EnumNext]_vars

\* ------------------------------------ two policy-set commands at one time
\* Each /blam idv <word> is its own asyncio task.  get_idv_required_level and
\* set_idv_required_level each hold _db_lock for one statement and are
\* awaited through asyncio.to_thread, so the other task may run between one
\* task's read and its write.  Both commands are for channel "C1".
Commands == {1, 2}

Levels == {LevelNum(w) : w \in LevelWords}

PolicySet(pc, levelnum, old_level) ==
    [pc |-> pc, levelnum |-> levelnum, old_level |-> old_level]

ConcInit ==
    /\ channel_filters \in [AllChannels -> Levels]
    /\ channel_filters["G1"] = 0
    /\ channel_blammed = {}
    /\ channel_whitelist = {}
    /\ task \in [Commands -> {PolicySet("read", l, -1) : l \in Levels}]
    /\ ev = [Event("policy_sets", "C1") EXCEPT
                 !.old_level = get_idv_required_level("C1")]
    /\ kicks = <<>>
    /\ invites = {}
    /\ reply = NONE

\* old_level = await get_idv_required_level(...), then the "already set" test.
PolicyRead(p) ==
    /\ task[p].pc = "read"
    /\ LET old_level == get_idv_required_level("C1") IN
       task' = [task EXCEPT ![p] =
                  PolicySet(IF AlreadySet(old_level, task[p].levelnum)
                            THEN "done" ELSE "write",
                            task[p].levelnum, old_level)]
    /\ UNCHANGED <<store, ev, kicks, invites, reply>>

\* await set_idv_required_level(...), then the test that starts the sweep.
PolicyWrite(p) ==
    /\ task[p].pc = "write"
    /\ channel_filters' = set_idv_required_level("C1", task[p].levelnum)
    /\ task' = [task EXCEPT ![p].pc =
                  IF SweepDue(task[p].old_level, task[p].levelnum)
                  THEN "sweep" ELSE "done"]
    /\ UNCHANGED <<channel_blammed, channel_whitelist, ev, kicks, invites, reply>>

\* The live sweep of command p, counted in ev.sweeps.
PolicySweep(p) ==
    /\ task[p].pc = "sweep"
    /\ task' = [task EXCEPT ![p].pc = "done"]
    /\ ev' = [ev EXCEPT !.sweeps = @ + 1]
    /\ UNCHANGED <<store, kicks, invites, reply>>

ConcNext ==
    \/ \E p \in Commands : PolicyRead(p)
    \/ \E p \in Commands : PolicyWrite(p)
    \/ \E p \in Commands : PolicySweep(p)

ConcSpec == ConcInit /\ [][ConcNext]_vars

\* ------------------------------------------- the entry tables, row by row
\* The two entry tables as the rows sqlite holds, in insertion order, next to
\* the sets of rows the handlers are modelled on.  task.blammed and
\* task.whitelist are the rows; ev is the last statement, task.prev the one
\* before it, task.before the blam rows as they were before task.prev ran.
DbUsers == {"U1", "U2"}

\* INSERT OR IGNORE under PRIMARY KEY (channel_id, user_id).
InsertOrIgnoreMut(rows, channel_id, user_id) ==
    Append(rows, <<channel_id, user_id>>)

InsertOrIgnore(rows, channel_id, user_id) ==
    IF <<channel_id, user_id>> \in Range(rows) THEN rows
    ELSE Append(rows, <<channel_id, user_id>>)

\* DELETE ... WHERE channel_id = ? AND user_id = ?
DeleteWhereMut(rows, channel_id, user_id) ==
    SelectSeq(rows, LAMBDA r : r[2] # user_id)

DeleteWhere(rows, channel_id, user_id) ==
    SelectSeq(rows, LAMBDA r : ~(r[1] = channel_id /\ r[2] = user_id))

\* SELECT user_id ... WHERE channel_id = ?
SelectUsers(rows, channel_id) ==
    {rows[i][2] : i \in {j \in 1..Len(rows) : rows[j][1] = channel_id}}

NoStatement == [kind |-> NONE, channel |-> NONE, user |-> NONE]

Statement(kind, channel_id, user_id) ==
    [kind |-> kind, channel |-> channel_id, user |-> user_id]

LastStatement == Statement(ev.kind, ev.channel, ev.user)

StoreInit ==
    /\ channel_filters = [c \in AllChannels |-> 0]
    /\ channel_blammed = {}
    /\ channel_whitelist = {}
    /\ task = [mode |-> "db", blammed |-> <<>>, whitelist |-> <<>>,
               prev |-> NoStatement, before |-> {}]
    /\ ev = Event(NONE, NONE)
    /\ kicks = <<>>
    /\ invites = {}
    /\ reply = NONE

DbStatement(kind, channel_id, user_id) ==
    /\ ev' = [Event(kind, channel_id) EXCEPT !.user = user_id, !.db = "ok"]
    /\ UNCHANGED <<channel_filters, kicks, invites, reply>>

DbAddBlam(channel_id, user_id) ==
    /\ Len(InsertOrIgnore(task.blammed, channel_id, user_id)) + Len(task.whitelist)
          <= MaxRows
    /\ task' = [task EXCEPT
           !.blammed = InsertOrIgnore(@, channel_id, user_id),
           !.prev = LastStatement, !.before = Range(task.blammed)]
    /\ channel_blammed' = add_blam(channel_id, user_id)
    /\ DbStatement("add_blam", channel_id, user_id)
    /\ UNCHANGED channel_whitelist

DbRemoveBlam(channel_id, user_id) ==
    /\ task' = [task EXCEPT
           !.blammed = DeleteWhere(@, channel_id, user_id),
           !.prev = LastStatement, !.before = Range(task.blammed)]
    /\ channel_blammed' = remove_blam(channel_id, user_id)
    /\ DbStatement("remove_blam", channel_id, user_id)
    /\ UNCHANGED channel_whitelist

DbAddWhitelist(channel_id, user_id) ==
    /\ Len(task.blammed) + Len(InsertOrIgnore(task.whitelist, channel_id, user_id))
          <= MaxRows
    /\ task' = [task EXCEPT
           !.whitelist = InsertOrIgnore(@, channel_id, user_id),
           !.prev = LastStatement, !.before = Range(task.blammed)]
    /\ channel_whitelist' = add_whitelist(channel_id, user_id)
    /\ DbStatement("add_whitelist", channel_id, user_id)
    /\ UNCHANGED channel_blammed

DbRemoveWhitelist(channel_id, user_id) ==
    /\ task' = [task EXCEPT
           !.whitelist = DeleteWhere(@, channel_id, user_id),
           !.prev = LastStatement, !.before = Range(task.blammed)]
    /\ channel_whitelist' = remove_whitelist(channel_id, user_id)
    /\ DbStatement("remove_whitelist", channel_id, user_id)
    /\ UNCHANGED channel_blammed

StoreNext ==
    \/ \E c \in AllChannels, u \in DbUsers : DbAddBlam(c, u)
    \/ \E c \in AllChannels, u \in DbUsers : DbRemoveBlam(c, u)
    \/ \E c \in AllChannels, u \in DbUsers : DbAddWhitelist(c, u)
    \/ \E c \in AllChannels, u \in DbUsers : DbRemoveWhitelist(c, u)

StoreSpec == StoreInit /\ [][StoreNext]_vars

\* ----------------------------------------------------------- LevelSpec
\* The channel_filters table of src/db.py as rows (channel_id, level), written
\* and read by the two statements of the level functions. task.last keeps,
\* beside the table, the level of the latest set per channel (-1: never set).

\* INSERT ... ON CONFLICT(channel_id) DO UPDATE SET idv_required_level = excluded
UpsertLevelMut(rows, channel_id, level) ==
    IF \E i \in 1..Len(rows) : rows[i][1] = channel_id THEN rows
    ELSE Append(rows, <<channel_id, level>>)

UpsertLevel(rows, channel_id, level) ==
    IF \E i \in 1..Len(rows) : rows[i][1] = channel_id
    THEN [i \in 1..Len(rows) |->
             IF rows[i][1] = channel_id THEN <<channel_id, level>> ELSE rows[i]]
    ELSE Append(rows, <<channel_id, level>>)

\* SELECT idv_required_level ... WHERE channel_id = ?; fetchone(), 0 without row.
SelectLevel(rows, channel_id) ==
    IF \E i \in 1..Len(rows) : rows[i][1] = channel_id
    THEN rows[CHOOSE i \in 1..Len(rows) : rows[i][1] = channel_id][2]
    ELSE 0

LevelInit ==
    /\ channel_filters = [c \in AllChannels |-> 0]
    /\ channel_blammed \in SUBSET {<<"C1", "U1">>, <<"G1", "U1">>}
    /\ channel_whitelist \in SUBSET {<<"C1", "U2">>, <<"G1", "U2">>}
    /\ task = [mode |-> "levels", filters |-> <<>>,
               last |-> [c \in AllChannels |-> -1]]
    /\ ev = Event(NONE, NONE)
    /\ kicks = <<>>
    /\ invites = {}
    /\ reply = NONE

\* set_idv_required_level(channel_id, level), level as handle_blam computes it.
DbSetLevel(channel_id, level) ==
    /\ task' = [task EXCEPT !.filters = UpsertLevel(@, channel_id, level),
                            !.last[channel_id] = level]
    /\ channel_filters' = set_idv_required_level(channel_id, level)
    /\ ev' = [Event("set_level", channel_id) EXCEPT !.levelnum = level, !.db = "ok"]
    /\ UNCHANGED <<channel_blammed, channel_whitelist, kicks, invites, reply>>

\* get_idv_required_level(channel_id)
DbGetLevel(channel_id) ==
    /\ ev' = [Event("get_level", channel_id) EXCEPT
                 !.levelnum = SelectLevel(task.filters, channel_id), !.db = "ok"]
    /\ UNCHANGED <<store, task, kicks, invites, reply>>

LevelNext ==
    \/ \E c \in AllChannels, w \in LevelWords : DbSetLevel(c, LevelNum(w))
    \/ \E c \in AllChannels : DbGetLevel(c)

LevelSpec == LevelInit /\ [][LevelNext]_vars

\* ----------------------------------------------------------- GatherSpec
\* The end of the live sweep (src/main.py): asyncio.gather over one
\* _kick_if_possible per flagged user, without return_exceptions, inside the
\* try of the sweep.  gather makes a task of every call at once; the first
\* exception is handed to the awaiting handler and the other tasks run on.

KickCoro(pc, primary, secondary) ==
    [pc |-> pc, primary |-> primary, secondary |-> secondary]

\* Whether the task of call i still has a step to run.
ScheduledMut(calls, handler, i) ==
    /\ calls[i].pc \in {"primary", "secondary"}
    /\ handler = "awaiting"
    /\ \A j \in 1..(i - 1) : calls[j].pc = "returned"

Scheduled(calls, handler, i) == calls[i].pc \in {"primary", "secondary"}

GatherInit ==
    /\ channel_filters = [c \in AllChannels |-> IF c = "C1" THEN 1 ELSE 0]
    /\ channel_blammed = {}
    /\ channel_whitelist = {}
    /\ \E toblam \in {s \in MemberLists :
                         \A i \in 1..Len(s) : s[i] \notin {ADMIN_ID, BOT_USER_ID}} :
          task = [mode |-> "gather", channel |-> "C1", toblam |-> toblam,
                  calls |-> [i \in 1..Len(toblam) |-> KickCoro("primary", NONE, NONE)],
                  handler |-> "awaiting"]
    /\ ev = Event("gather", "C1")
    /\ kicks = <<>>
    /\ invites = {}
    /\ reply = NONE

\* The primary attempt of call i.
GatherXoxc(i, outcome) ==
    /\ task.mode = "gather"
    /\ i \in 1..Len(task.calls)
    /\ Scheduled(task.calls, task.handler, i)
    /\ task.calls[i].pc = "primary"
    /\ task' = [task EXCEPT !.calls[i] =
           KickCoro(IF XoxcRaises(outcome) THEN "secondary" ELSE "returned",
                    outcome, NONE)]
    /\ ev' = [Event("gather_xoxc", task.channel) EXCEPT !.user = task.toblam[i]]
    /\ kicks' = IF XoxcSends(outcome) THEN <<<<task.channel, task.toblam[i]>>>> ELSE <<>>
    /\ UNCHANGED <<store, invites, reply>>

\* The secondary attempt of call i.
GatherPersonal(i, outcome) ==
    /\ task.mode = "gather"
    /\ i \in 1..Len(task.calls)
    /\ Scheduled(task.calls, task.handler, i)
    /\ task.calls[i].pc = "secondary"
    /\ task' = [task EXCEPT !.calls[i] =
           KickCoro(IF PersonalRaises(outcome) THEN "raised" ELSE "returned",
                    task.calls[i].primary, outcome)]
    /\ ev' = [Event("gather_personal", task.channel) EXCEPT !.user = task.toblam[i]]
    /\ kicks' = <<<<task.channel, task.toblam[i]>>>>
    /\ UNCHANGED <<store, invites, reply>>

\* The handler resumes from gather: on the first exception, or when every call
\* has returned.  Neither branch answers the command.
GatherResume ==
    /\ task.mode = "gather"
    /\ task.handler = "awaiting"
    /\ \/ \E i \in 1..Len(task.calls) : task.calls[i].pc = "raised"
       \/ \A i \in 1..Len(task.calls) : task.calls[i].pc = "returned"
    /\ task' = [task EXCEPT !.handler =
           IF \E i \in 1..Len(task.calls) : task.calls[i].pc = "raised"
           THEN "logged_error" ELSE "logged_count"]
    /\ ev' = [Event("gather_resumed", task.channel) EXCEPT
                 !.count = Len(task.toblam)]
    /\ kicks' = <<>>
    /\ UNCHANGED <<store, invites, reply>>

GatherNext ==
    \/ \E i \in 1..MaxMembers, o \in XoxcOutcomes : GatherXoxc(i, o)
    \/ \E i \in 1..MaxMembers, o \in PersonalOutcomes : GatherPersonal(i, o)
    \/ GatherResume

GatherSpec == GatherInit /\ [][GatherNext]_vars

\* ------------------------------------------------------------- RaceSpec
\* A live sweep with a second /blam idv command of the same channel running
\* between its awaits.  The second command is one that starts no sweep of its
\* own: it writes its level and answers.
RacingSet(channel_id, levelnum) ==
    /\ task.mode = "live"
    /\ task.channel = channel_id
    /\ ~AlreadySet(get_idv_required_level(channel_id), levelnum)
    /\ ~SweepDue(get_idv_required_level(channel_id), levelnum)
    /\ channel_filters' = set_idv_required_level(channel_id, levelnum)
    /\ ev' = [Event("racing_set", channel_id) EXCEPT
                 !.levelnum = levelnum,
                 !.old_level = get_idv_required_level(channel_id), !.db = "ok"]
    /\ reply' = "Set IDV requirement"
    /\ kicks' = <<>>
    /\ invites' = {}
    /\ UNCHANGED <<channel_blammed, channel_whitelist, task>>

RaceNext ==
    \/ \E c \in Channels, a \in AuthOutcomes : CmdAuth(c, a.actor, a.scan)
    \/ \E c \in Channels, w \in Words : CmdIdvSet(c, w)
    \/ \E b \in BOOLEAN : SweepStep(b)
    \/ SweepFinish
    \/ \E c \in Channels, w \in LevelWords : RacingSet(c, LevelNum(w))

RaceSpec == Init /\ [][RaceNext]_vars

\* ------------------------------------------------------------- GateSpec
\* The lookups of one sweep, counted.  The dry run (needs_kick) makes one task
\* per member; each takes a slot of asyncio.Semaphore(20) around user_is_bot
\* and again around the identity lookup.  The live sweep has no semaphore: its
\* loop awaits one lookup after the other and ends at the first exception.
\* fresh counts the members not yet started, bot and idv the lookups in
\* flight, queued the members between the two lookups, done the evaluated.
SEMAPHORE_LIMIT == 20

\* Members of the swept channel.
MaxSweep == 21

InFlight == task.bot + task.idv

\* Whether the next lookup may start: Semaphore.acquire for the dry run, the
\* sequential loop for the live sweep.
Admits(kind) ==
    IF kind = "test" THEN task.value > 0
    ELSE InFlight = 0 /\ ~task.raised

GateInit ==
    /\ channel_filters = [c \in AllChannels |-> 0]
    /\ channel_blammed = {}
    /\ channel_whitelist = {}
    /\ \E kind \in {"test", "live"}, n \in 0..MaxSweep :
          task = [mode |-> "gate", kind |-> kind, n |-> n,
                  value |-> SEMAPHORE_LIMIT, fresh |-> n, bot |-> 0,
                  queued |-> 0, idv |-> 0, done |-> 0, raised |-> FALSE]
    /\ ev = Event("gate", "C1")
    /\ kicks = <<>>
    /\ invites = {}
    /\ reply = NONE

\* needs_kick returns 0 for ADMIN_ID and for a whitelisted member at once.
GateSkip ==
    /\ task.mode = "gate" /\ task.kind = "test"
    /\ task.fresh > 0
    /\ task' = [task EXCEPT !.fresh = @ - 1, !.done = @ + 1]
    /\ UNCHANGED <<store, ev, kicks, invites, reply>>

\* A member's user_is_bot starts.
BotLookup ==
    /\ task.mode = "gate"
    /\ task.fresh > 0
    /\ task.kind = "live" => task.queued = 0
    /\ Admits(task.kind)
    /\ task' = [task EXCEPT !.fresh = @ - 1, !.bot = @ + 1,
                            !.value = IF task.kind = "test" THEN @ - 1 ELSE @]
    /\ UNCHANGED <<store, ev, kicks, invites, reply>>

\* user_is_bot returns (it raises nothing): the member is settled (a bot,
\* level 0, whitelisted or ADMIN_ID in the live loop) or goes on to the
\* identity lookup.
BotReturn(settled) ==
    /\ task.mode = "gate"
    /\ task.bot > 0
    /\ task' = [task EXCEPT !.bot = @ - 1,
                            !.value = IF task.kind = "test" THEN @ + 1 ELSE @,
                            !.done = IF settled THEN @ + 1 ELSE @,
                            !.queued = IF settled THEN @ ELSE @ + 1]
    /\ UNCHANGED <<store, ev, kicks, invites, reply>>

\* A member's is_idved or is_idved_under18 starts.
IdvLookup ==
    /\ task.mode = "gate"
    /\ task.queued > 0
    /\ Admits(task.kind)
    /\ task' = [task EXCEPT !.queued = @ - 1, !.idv = @ + 1,
                            !.value = IF task.kind = "test" THEN @ - 1 ELSE @]
    /\ UNCHANGED <<store, ev, kicks, invites, reply>>

\* The identity lookup returns, or raises: "async with" gives the slot back
\* either way.  In the dry run the exception leaves gather and the command
\* answers its error while the other tasks run on; in the live sweep it leaves
\* the loop.
IdvReturn(raises) ==
    /\ task.mode = "gate"
    /\ task.idv > 0
    /\ task' = [task EXCEPT !.idv = @ - 1,
                            !.value = IF task.kind = "test" THEN @ + 1 ELSE @,
                            !.done = IF raises /\ task.kind = "live" THEN @ ELSE @ + 1,
                            !.raised = @ \/ raises]
    /\ reply' = IF raises /\ task.kind = "test" /\ ~task.raised
                THEN "Error testing IDV requirement." ELSE reply
    /\ UNCHANGED <<store, ev, kicks, invites>>

GateNext ==
    \/ GateSkip
    \/ BotLookup
    \/ \E settled \in BOOLEAN : BotReturn(settled)
    \/ IdvLookup
    \/ \E raises \in BOOLEAN : IdvReturn(raises)

GateSpec == GateInit /\ [][GateNext]_vars

\* -------------------------------------------------------------- BotSpec
\* user_is_bot (src/idv.py) with its two module-level sets, called by two
\* handlers at once.  A call reads the sets, then awaits the cookie-session
\* query, then, when that gave None, awaits users.info; the sets are written
\* after the last await.  task.truth is what the platform answers for a user,
\* task.creds whether SLACK_XOXC and SLACK_XOXD are set.
Callers == {1, 2}

BotCoro(pc, user_id, result) == [pc |-> pc, user |-> user_id, result |-> result]

\* _user_is_bot_xoxc returns None: ok is false, or an exception was caught.
XoxcNone(outcome) == outcome \in {"not_ok", "exception"}

\* The two sets after a classification that got an answer.
Memoize(botcache, usercache, user_id, is_bot) ==
    IF is_bot THEN [botcache |-> botcache \cup {user_id}, usercache |-> usercache]
    ELSE [botcache |-> botcache, usercache |-> usercache \cup {user_id}]

\* The two sets after users.info raised: the except clause returns False.
AfterFailureMut(botcache, usercache, user_id) ==
    [botcache |-> botcache, usercache |-> usercache \cup {user_id}]

AfterFailure(botcache, usercache, user_id) ==
    [botcache |-> botcache, usercache |-> usercache]

BotInit ==
    /\ channel_filters = [c \in AllChannels |-> 0]
    /\ channel_blammed = {}
    /\ channel_whitelist = {}
    /\ \E truth \in [DbUsers -> BOOLEAN], creds \in BOOLEAN :
          task = [mode |-> "bots", botcache |-> {}, usercache |-> {},
                  truth |-> truth, creds |-> creds,
                  calls |-> [k \in Callers |-> BotCoro("idle", NONE, NONE)]]
    /\ ev = Event(NONE, NONE)
    /\ kicks = <<>>
    /\ invites = {}
    /\ reply = NONE

\* One step of user_is_bot: scan is the answer the step received, verdict the
\* endpoint it sent a query to, count the number of queries it sent, is_bot
\* the value the call returned in this step.
BotEvent(kind, user_id, outcome, endpoint, result) ==
    [Event(kind, NONE) EXCEPT
        !.user = user_id, !.scan = outcome, !.verdict = endpoint,
        !.count = IF endpoint = NONE THEN 0 ELSE 1, !.is_bot = result]

\* user_is_bot(user_id) is called: the two sets are read; on a miss the first
\* query goes out, to the cookie-session endpoint when the credentials are
\* set, to users.info when they are not.
BotCall(k, user_id) ==
    /\ task.mode = "bots"
    /\ task.calls[k].pc \in {"idle", "done"}
    /\ IF user_id \in task.botcache
       THEN /\ task' = [task EXCEPT !.calls[k] = BotCoro("done", user_id, "bot")]
            /\ ev' = BotEvent("bot_call", user_id, NONE, NONE, "bot")
       ELSE IF user_id \in task.usercache
       THEN /\ task' = [task EXCEPT !.calls[k] = BotCoro("done", user_id, "human")]
            /\ ev' = BotEvent("bot_call", user_id, NONE, NONE, "human")
       ELSE IF task.creds
       THEN /\ task' = [task EXCEPT !.calls[k] = BotCoro("xoxc", user_id, NONE)]
            /\ ev' = BotEvent("bot_call", user_id, NONE, "xoxc", NONE)
       ELSE /\ task' = [task EXCEPT !.calls[k] = BotCoro("users_info", user_id, NONE)]
            /\ ev' = BotEvent("bot_call", user_id, "no_credentials", "users_info", NONE)
    /\ UNCHANGED <<store, kicks, invites, reply>>

\* The cookie-session query ends: with an answer the call memoizes and
\* returns, with None it sends users.info.
BotXoxc(k, outcome) ==
    /\ task.mode = "bots"
    /\ task.calls[k].pc = "xoxc"
    /\ LET user_id == task.calls[k].user
           is_bot == task.truth[user_id]
           sets == Memoize(task.botcache, task.usercache, user_id, is_bot)
       IN
       IF XoxcNone(outcome)
       THEN /\ task' = [task EXCEPT !.calls[k] = BotCoro("users_info", user_id, NONE)]
            /\ ev' = BotEvent("bot_xoxc", user_id, outcome, "users_info", NONE)
       ELSE /\ task' = [task EXCEPT
                   !.calls[k] = BotCoro("done", user_id, BotWord(is_bot)),
                   !.botcache = sets.botcache, !.usercache = sets.usercache]
            /\ ev' = BotEvent("bot_xoxc", user_id, outcome, NONE, BotWord(is_bot))
    /\ UNCHANGED <<store, kicks, invites, reply>>

\* users.info ends: with an answer the call memoizes and returns, with an
\* exception it returns False.
BotUsersInfo(k, outcome) ==
    /\ task.mode = "bots"
    /\ task.calls[k].pc = "users_info"
    /\ LET user_id == task.calls[k].user
           is_bot == task.truth[user_id]
           sets == IF outcome = "answer"
                   THEN Memoize(task.botcache, task.usercache, user_id, is_bot)
                   ELSE AfterFailure(task.botcache, task.usercache, user_id)
           result == IF outcome = "answer" THEN BotWord(is_bot) ELSE "human"
       IN
       /\ task' = [task EXCEPT
              !.calls[k] = BotCoro("done", user_id, result),
              !.botcache = sets.botcache, !.usercache = sets.usercache]
       /\ ev' = BotEvent("bot_users_info", user_id, outcome, NONE, result)
    /\ UNCHANGED <<store, kicks, invites, reply>>

BotNext ==
    \/ \E k \in Callers, u \in DbUsers : BotCall(k, u)
    \/ \E k \in Callers, o \in {"answer", "not_ok", "exception"} : BotXoxc(k, o)
    \/ \E k \in Callers, o \in {"answer", "error"} : BotUsersInfo(k, o)

BotSpec == BotInit /\ [][BotNext]_vars

\* ------------------------------------------------------------ CacheSpec
\* idvstatus behind async_cached (src/idv.py): the key of an entry is
\* hashkey(userid, logger), the two arguments of the call.  Every listener is
\* handed its own logger, so the lookups of /blam and those of the
\* member-joined event carry different ones.  An entry leaves the cache when
\* its time to live has passed.  task.cache maps a key to the status it holds,
\* NONE when it holds none.
Loggers == {"handle_blam", "handle_member_joined_channel"}

hashkey(userid, logger) == <<userid, logger>>

CacheInit ==
    /\ channel_filters = [c \in AllChannels |-> 0]
    /\ channel_blammed = {}
    /\ channel_whitelist = {}
    /\ task = [mode |-> "cache", cache |-> [key \in (DbUsers \X Loggers) |-> NONE],
               calls |-> [k \in Callers |->
                   [pc |-> "idle", user |-> NONE, logger |-> NONE, levelnum |-> 0]]]
    /\ ev = Event(NONE, NONE)
    /\ kicks = <<>>
    /\ invites = {}
    /\ reply = NONE

\* One step of a verdict request: actor is the logger of the request, count
\* the number of outbound calls the step sent, scan the status it returned
\* and verdict what the tier check made of it.
IdvEvent(kind, userid, logger, levelnum, sent, status) ==
    [Event(kind, NONE) EXCEPT
        !.user = userid, !.actor = logger, !.levelnum = levelnum,
        !.count = sent, !.scan = status,
        !.verdict = IF status \in Statuses
                    THEN VerdictWord(TierOk(levelnum, status)) ELSE status]

\* is_idved (levelnum 1) or is_idved_under18 (levelnum 2) is called: the
\* wrapper looks its key up and, on KeyError, awaits the outbound call.
IdvCall(k, userid, logger, levelnum) ==
    /\ task.mode = "cache"
    /\ task.calls[k].pc = "idle"
    /\ LET held == task.cache[hashkey(userid, logger)] IN
       IF held # NONE
       THEN /\ ev' = IdvEvent("idv_call", userid, logger, levelnum, 0, held)
            /\ UNCHANGED task
       ELSE /\ ev' = IdvEvent("idv_call", userid, logger, levelnum, 1, NONE)
            /\ task' = [task EXCEPT
                   !.calls[k] = [pc |-> "await", user |-> userid,
                                 logger |-> logger, levelnum |-> levelnum]]
    /\ UNCHANGED <<store, kicks, invites, reply>>

\* The outbound call ends: its result is stored under the key of the request
\* and returned; an exception stores nothing and leaves the request.
IdvResponse(k, response) ==
    /\ task.mode = "cache"
    /\ task.calls[k].pc = "await"
    /\ LET call == task.calls[k]
           status == idvstatus(response)
       IN
       /\ ev' = IdvEvent("idv_response", call.user, call.logger, call.levelnum,
                         0, status)
       /\ task' = [task EXCEPT
              !.calls[k] = [pc |-> "idle", user |-> NONE, logger |-> NONE, levelnum |-> 0],
              !.cache[hashkey(call.user, call.logger)] =
                  IF status = "RAISE" THEN @ ELSE status]
    /\ UNCHANGED <<store, kicks, invites, reply>>

\* ttl seconds after it was stored an entry is gone.
Expire(key) ==
    /\ task.mode = "cache"
    /\ task.cache[key] # NONE
    /\ task' = [task EXCEPT !.cache[key] = NONE]
    /\ ev' = IdvEvent("expire", key[1], key[2], 0, 0, NONE)
    /\ UNCHANGED <<store, kicks, invites, reply>>

CacheNext ==
    \/ \E k \in Callers, u \in DbUsers, l \in Loggers, n \in {1, 2} :
          IdvCall(k, u, l, n)
    \/ \E k \in Callers, r \in OracleResponses : IdvResponse(k, r)
    \/ \E key \in (DbUsers \X Loggers) : Expire(key)

CacheSpec == CacheInit /\ [][CacheNext]_vars

\* ------------------------------------------------------------- PairSpec
\* The dry run for a level and the live sweep of the change from 0 to that
\* level, taken over one member list with one whitelist and with the same
\* answers of the classifier and of the oracle for every member.

\* needs_kick (the dry run): 1 for a member it counts, 0 otherwise, -1 when
\* its identity lookup raises.
needs_kickMut(user_id, whitelisted, levelnum, is_bot, status) ==
    IF user_id \in whitelisted THEN 0
    ELSE IF is_bot \/ levelnum = 0 THEN 0
    ELSE IF status = "RAISE" THEN -1
    ELSE IF levelnum = 1 THEN (IF is_idved(status) THEN 0 ELSE 1)
    ELSE IF is_idved_under18(status) THEN 0 ELSE 1

needs_kick(user_id, whitelisted, levelnum, is_bot, status) ==
    IF user_id = ADMIN_ID \/ user_id \in whitelisted THEN 0
    ELSE IF is_bot \/ levelnum = 0 THEN 0
    ELSE IF status = "RAISE" THEN -1
    ELSE IF levelnum = 1 THEN (IF is_idved(status) THEN 0 ELSE 1)
    ELSE IF is_idved_under18(status) THEN 0 ELSE 1

\* The body of the loop of the live sweep: 1 for a member appended to toblam,
\* 0 for one passed over, -1 when the identity lookup raises.
LiveFlag(channel_id, user_id, levelnum, is_bot, status) ==
    IF ~LiveLooksUp(channel_id, user_id, is_bot) THEN 0
    ELSE IF levelnum = 1
    THEN (IF status = "RAISE" THEN -1 ELSE IF is_idved(status) THEN 0 ELSE 1)
    ELSE IF levelnum = 2
    THEN (IF status = "RAISE" THEN -1 ELSE IF is_idved_under18(status) THEN 0 ELSE 1)
    ELSE 0

PairInit ==
    /\ channel_filters = [c \in AllChannels |-> 0]
    /\ channel_blammed = {}
    /\ channel_whitelist \in SUBSET {<<"C1", "U1">>, <<"C1", "U2">>}
    /\ \E users \in MemberLists, w \in LevelWords :
          task = [mode |-> "pair", channel |-> "C1", levelnum |-> LevelNum(w),
                  users |-> users, seen |-> <<>>, count |-> 0, toblam |-> <<>>,
                  dry |-> "running", live |-> IF LevelNum(w) = 0 THEN "none"
                                              ELSE "running"]
    /\ ev = Event("pair", "C1")
    /\ kicks = <<>>
    /\ invites = {}
    /\ reply = NONE

\* The next member under both: the dry run adds its flag to the count, the
\* live sweep appends the member to toblam; a raising lookup ends either.
PairStep(is_bot, response) ==
    /\ task.mode = "pair"
    /\ task.dry = "running"
    /\ Len(task.seen) < Len(task.users)
    /\ LET user_id == NextUser
           status == idvstatus(response)
           flag == needs_kick(user_id, list_whitelisted(task.channel),
                              task.levelnum, is_bot, status)
           live == IF task.live = "running"
                   THEN LiveFlag(task.channel, user_id, task.levelnum, is_bot, status)
                   ELSE 0
           word == IF status = "RAISE" THEN "RAISE"
                   ELSE VerdictWord(TierOk(task.levelnum, status))
       IN
       /\ ev' = [Event("pair_step", task.channel) EXCEPT
                    !.user = user_id, !.is_bot = BotWord(is_bot),
                    !.levelnum = task.levelnum, !.verdict = word]
       /\ task' = [task EXCEPT
              !.seen = Append(@, Observation(user_id, BotWord(is_bot), word)),
              !.count = IF flag = 1 THEN @ + 1 ELSE @,
              !.toblam = IF live = 1 THEN Append(@, user_id) ELSE @,
              !.dry = IF flag = -1 THEN "raised" ELSE @,
              !.live = IF live = -1 THEN "raised" ELSE @]
    /\ UNCHANGED <<store, kicks, invites, reply>>

\* Both are through the list: the dry run answers its count, the live sweep
\* sends its kicks.
PairFinish ==
    /\ task.mode = "pair"
    /\ task.dry = "running"
    /\ Len(task.seen) = Len(task.users)
    /\ ev' = [Event("pair_done", task.channel) EXCEPT
                 !.levelnum = task.levelnum, !.count = task.count,
                 !.users = task.users]
    /\ kicks' = IF task.live = "running"
                THEN SweepKicks(task.channel, task.toblam) ELSE <<>>
    /\ reply' = "users would be kicked"
    /\ task' = [task EXCEPT !.dry = "done",
                            !.live = IF @ = "running" THEN "done" ELSE @]
    /\ UNCHANGED <<store, invites>>

PairNext ==
    \/ \E b \in BOOLEAN, r \in OracleResponses : PairStep(b, r)
    \/ PairFinish

PairSpec == PairInit /\ [][PairNext]_vars

\* ------------------------------------------------------------------ claims
\* C1: a user who holds a whitelist entry for a channel is never the target
\* of a kick request in that channel, whatever sent the request (explicit
\* blam, join, live sweep).
C1_WhitelistedNeverKicked ==
    \A i \in 1..Len(kicks) : kicks[i] \notin channel_whitelist

\* C2: the root operator is never the target of a kick request.
C2_OperatorNeverKicked ==
    \A i \in 1..Len(kicks) : kicks[i][2] # ADMIN_ID

\* C3: a /blam command typed by someone who is not the root operator and whom
\* the membership scan did not find (the listing ran out, or a call failed)
\* ends with the denial: the store is as before, no kick and no invite are
\* sent, and no subcommand is read.
C3_UnauthorizedDenied ==
    [][(/\ task.mode = "idle"
        /\ ev'.kind \in {"authorized", "denied"}
        /\ ev'.actor # ADMIN_ID
        /\ ev'.scan # "found")
       => /\ ev'.kind = "denied"
          /\ reply' = "You are not authorized to use this command."
          /\ UNCHANGED store
          /\ kicks' = <<>>
          /\ invites' = {}
          /\ task' = Idle]_vars

\* The denial after a scan that failed with a platform error.
C3_Witness ==
    /\ ev.kind = "denied"
    /\ ev.actor = "U1"
    /\ ev.scan = "error"
    /\ reply = "You are not authorized to use this command."
    /\ task = Idle

\* C4: when a user other than the root operator joins a channel, with the bot
\* classification and the identity verdict as given, exactly one kick of that
\* user is sent if the user is not whitelisted and either is blammed or the
\* level is not 0, the user is not a bot and the verdict fails the level's
\* tier; otherwise no kick is sent.
C4_JoinKickRule ==
    (ev.kind = "member_joined" /\ ev.user # ADMIN_ID /\ ev.verdict # "RAISE") =>
        LET c == ev.channel
            u == ev.user
            level == channel_filters[c]
            passes == IF level = 1
                      THEN ev.verdict \in {"verified_eligible", "verified_but_over_18"}
                      ELSE ev.verdict = "verified_eligible"
            removed ==
                /\ <<c, u>> \notin channel_whitelist
                /\ \/ <<c, u>> \in channel_blammed
                   \/ level # 0 /\ ev.is_bot = "human" /\ ~passes
        IN kicks = IF removed THEN <<<<c, u>>>> ELSE <<>>

\* A human without entries joins at level 1 with a verdict that fails.
C4_Witness ==
    /\ ev.kind = "member_joined"
    /\ ev.user = "U1"
    /\ <<"C1", "U1">> \notin channel_whitelist
    /\ <<"C1", "U1">> \notin channel_blammed
    /\ channel_filters["C1"] = 1
    /\ ev.is_bot = "human"
    /\ ev.verdict = "not_found"
    /\ kicks = <<<<"C1", "U1">>>>

\* C5: a step that changes a channel's stored level is a policy-set command;
\* it runs the live sweep, once, for that channel and the new level, exactly
\* when the level was 0 and becomes non-zero; from a non-zero level (to 0 or
\* to the other tier) it runs no sweep and sends no kick and no invite.
C5_SweepOnlyFromOff ==
    [][\A c \in AllChannels :
        channel_filters'[c] # channel_filters[c] =>
            LET old == channel_filters[c]
                new == channel_filters'[c]
            IN /\ ev'.kind = "idv_set"
               /\ ev'.channel = c
               /\ ev'.sweeps = IF old = 0 /\ new # 0 THEN 1 ELSE 0
               /\ task'.mode \in {"idle", "live"}
               /\ task'.mode = "live" =>
                     /\ old = 0
                     /\ task'.channel = c
                     /\ task'.levelnum = new
                     /\ task'.seen = <<>>
               /\ kicks' = <<>>
               /\ invites' = {}]_vars

\* The level went from 0 to 2 and the sweep has its members to evaluate.
C5_Witness ==
    /\ ev.kind = "idv_set"
    /\ ev.old_level = 0
    /\ ev.levelnum = 2
    /\ channel_filters["C1"] = 2
    /\ ev.sweeps = 1
    /\ task.mode = "live"
    /\ Len(task.users) >= 2

\* C6: a policy-set command that asks for the level the channel already has
\* does nothing: no write is attempted, the store is as before, no sweep is
\* started, no kick or invite is sent, and the answer is "already set".
C6_SameLevelNoOp ==
    [][(/\ task.mode = "command"
        /\ ev'.kind = "idv_set"
        /\ ev'.levelnum # -1
        /\ ev'.levelnum = channel_filters[ev'.channel])
       => /\ UNCHANGED store
          /\ ev'.db = NONE
          /\ ev'.sweeps = 0
          /\ task' = Idle
          /\ kicks' = <<>>
          /\ invites' = {}
          /\ reply' = "IDV requirement is already set"]_vars

\* Level 2 asked for on a channel at level 2.
C6_Witness ==
    /\ ev.kind = "idv_set"
    /\ ev.levelnum = 2
    /\ ev.old_level = 2
    /\ channel_filters["C1"] = 2
    /\ reply = "IDV requirement is already set"
    /\ task = Idle

\* C7: a live sweep that has evaluated every listed member (each lookup gave a
\* verdict) sends one kick for each member who is not the root operator, not
\* whitelisted and not a bot and whose verdict fails the sweep's tier, and no
\* other kick; blam entries are not looked at.
C7_SweepKicksExactly ==
    [][(task.mode = "live" /\ ev'.kind = "sweep_done") =>
        LET c == task.channel
            failing == {o \in Range(task.seen) :
                           /\ o.user # ADMIN_ID
                           /\ <<c, o.user>> \notin channel_whitelist
                           /\ o.is_bot = "human"
                           /\ o.verdict = "fail"}
            targets == {<<c, o.user>> : o \in failing}
        IN /\ task.levelnum \in {1, 2}
           /\ [i \in 1..Len(task.seen) |-> task.seen[i].user] = task.users
           /\ {kicks'[i] : i \in 1..Len(kicks')} = targets
           /\ Len(kicks') = Cardinality(targets)]_vars

\* Three members were evaluated, one was kicked, and a blam entry of the
\* channel led to no kick.
C7_Witness ==
    /\ ev.kind = "sweep_done"
    /\ ev.count = 3
    /\ Len(kicks) = 1
    /\ \E u \in Users :
          /\ <<"C1", u>> \in channel_blammed
          /\ \A i \in 1..Len(kicks) : kicks[i] # <<"C1", u>>

\* C8: no step of a dry run (the command, each member's evaluation, the
\* answer) sends a kick or an invite or changes the store, and a dry run
\* never becomes a live sweep.
C8_DryRunSendsNothing ==
    [][ev'.kind \in {"idv_test", "test_step", "test_failed", "test_done"} =>
          /\ kicks' = <<>>
          /\ invites' = {}
          /\ UNCHANGED store
          /\ task'.mode \in {"idle", "test"}]_vars

\* A dry run that flagged two members and kicked nobody.
C8_Witness ==
    /\ ev.kind = "test_done"
    /\ ev.count = 2
    /\ kicks = <<>>
    /\ invites = {}

\* C9: level 1 is passed by verified_eligible and verified_but_over_18 and by
\* nothing else, level 2 by verified_eligible only; so a join whose verdict
\* was looked up leads to a kick exactly when the verdict does not pass the
\* channel's level, and verified_but_over_18 at level 2 is kicked.
C9_TierComparison ==
    /\ \A s \in Statuses :
        /\ TierOk(1, s) <=> s \in {"verified_eligible", "verified_but_over_18"}
        /\ TierOk(2, s) <=> s = "verified_eligible"
    /\ (ev.kind = "member_joined" /\ ev.verdict \in Statuses) =>
        /\ ev.levelnum = 1 =>
              (kicks = <<>> <=>
                  ev.verdict \in {"verified_eligible", "verified_but_over_18"})
        /\ ev.levelnum = 2 => (kicks = <<>> <=> ev.verdict = "verified_eligible")
        /\ kicks # <<>> => kicks = <<<<ev.channel, ev.user>>>>

\* A verified adult joins a channel at level 2 and is kicked.
C9_Witness ==
    /\ ev.kind = "member_joined"
    /\ ev.levelnum = 2
    /\ ev.user = "U1"
    /\ ev.is_bot = "human"
    /\ ev.verdict = "verified_but_over_18"
    /\ kicks = <<<<"C1", "U1">>>>

\* C10: an identity lookup that fails (no connection, or a status other than
\* 200) counts as not eligible and raises nothing: the join that asked is
\* answered by a kick, and a sweep goes on to its remaining members.
C10_LookupFailureFailsClosed ==
    /\ (/\ ev.kind = "member_joined"
        /\ ev.resp # NoLookup
        /\ ev.resp.net = "error" \/ ev.resp.status # 200)
       => /\ reply # "RAISE"
          /\ kicks = <<<<ev.channel, ev.user>>>>
    /\ ev.kind \notin {"sweep_failed", "test_failed"}

\* C11: a kick tries the primary credential first; whenever that attempt
\* fails, an answer with "ok" false included, the secondary credential is
\* tried; when the primary attempt succeeded the secondary is not tried.
C11_FallbackOnAnyFailure ==
    /\ task.mode \in {"kick_secondary", "kick_done"} => task.primary # NONE
    /\ task.mode = "kick_done" =>
          (task.secondary # NONE <=> task.primary # "ok")

\* C12: every membership enumeration stops at a page without members, cursor
\* or not, and its result is that of the pages before that page: their
\* members, once each, for a listing; whether the target is among them, for
\* a scan.
C12_EmptyPageEnds ==
    task.mode = "enum" =>
        LET before == {k \in 1..Len(task.pages) :
                          \A j \in 1..k : task.pages[j].members # <<>>}
            expected == {UserOrder[k] : k \in before}
        IN /\ task.empty => task.done
           /\ (task.done /\ task.kind \in {"list", "edge"}) =>
                 /\ Range(task.users) = expected
                 /\ Len(task.users) = Cardinality(expected)
           /\ (task.done /\ task.kind \in {"auth", "manager"}) =>
                 (task.found <=> task.target \in expected)

\* C13: two policy-set commands for one channel that both ask for a non-zero
\* level while the stored level is 0 run one live sweep between them: no
\* command reads the level between the other's read and write.
C13_OneSweepForTwoSets ==
    (ev.old_level = 0 /\ \A p \in Commands : task[p].levelnum > 0) =>
        /\ ~(\A p \in Commands : task[p].pc = "write")
        /\ ev.sweeps <= 1
        /\ (\A p \in Commands : task[p].pc = "done") => ev.sweeps = 1

C16_IdempotentWrites ==
    [][/\ \A c \in AllChannels, u \in DbUsers :
            /\ (ev'.kind = "add_blam" /\ ev'.channel = c /\ ev'.user = u
                   /\ <<c, u>> \in Range(task.blammed))
               => /\ ev'.db = "ok"
                  /\ task'.blammed = task.blammed
                  /\ task'.whitelist = task.whitelist
                  /\ UNCHANGED store
            /\ (ev'.kind = "add_whitelist" /\ ev'.channel = c /\ ev'.user = u
                   /\ <<c, u>> \in Range(task.whitelist))
               => /\ ev'.db = "ok"
                  /\ task'.blammed = task.blammed
                  /\ task'.whitelist = task.whitelist
                  /\ UNCHANGED store
            /\ (ev'.kind = "remove_blam" /\ ev'.channel = c /\ ev'.user = u
                   /\ <<c, u>> \notin Range(task.blammed))
               => /\ ev'.db = "ok"
                  /\ task'.blammed = task.blammed
                  /\ task'.whitelist = task.whitelist
                  /\ UNCHANGED store
            /\ (ev'.kind = "remove_whitelist" /\ ev'.channel = c /\ ev'.user = u
                   /\ <<c, u>> \notin Range(task.whitelist))
               => /\ ev'.db = "ok"
                  /\ task'.blammed = task.blammed
                  /\ task'.whitelist = task.whitelist
                  /\ UNCHANGED store
       /\ \A i, j \in 1..Len(task'.blammed) :
            i # j => task'.blammed[i] # task'.blammed[j]
       /\ \A i, j \in 1..Len(task'.whitelist) :
            i # j => task'.whitelist[i] # task'.whitelist[j]
       /\ channel_blammed' = Range(task'.blammed)
       /\ channel_whitelist' = Range(task'.whitelist)]_vars

\* A blam entry that was there has been added again and is there once.
C16_Witness ==
    /\ ev.kind = "add_blam"
    /\ ev.channel = "C1"
    /\ ev.user = "U1"
    /\ task.prev = Statement("add_blam", "C1", "U1")
    /\ task.before = {<<"C1", "U1">>}
    /\ task.blammed = <<<<"C1", "U1">>>>
    /\ channel_blammed = {<<"C1", "U1">>}

\* C17: when the one who joined is the automation identity, the operator is
\* invited and the enforcement decision is not run on the automation
\* identity: it is not classified or looked up, and it is not kicked.
C17_SelfJoinInvitesOnly ==
    (ev.kind = "member_joined" /\ ev.user = BOT_USER_ID) =>
        /\ invites = {<<ev.channel, ADMIN_ID>>}
        /\ ev.is_bot = NONE
        /\ ev.verdict = NONE
        /\ kicks = <<>>

\* C18: when a member has left, the automation account is invited back
\* exactly when it is the one who left and the actor is not a channel
\* manager (no actor: not a manager), and the operator is invited back
\* exactly when the operator is the one who left and the actor is not a
\* channel manager.
C18_ReinviteUnlessManager ==
    ev.kind = "member_left" =>
        /\ <<ev.channel, BOT_USER_ID>> \in invites
              <=> (ev.user = BOT_USER_ID /\ ~ev.role)
        /\ <<ev.channel, ADMIN_ID>> \in invites
              <=> (ev.user = ADMIN_ID /\ ~ev.role)

\* C19: nobody but the root operator and the automation account is ever
\* invited, by any command or event.
C19_OnlyProtectedInvited ==
    \A i \in invites : i[2] \in {ADMIN_ID, BOT_USER_ID}

\* The automation account left, removed by nobody the listing knows, and is
\* invited back.
C19_Witness ==
    /\ ev.kind = "member_left"
    /\ ev.user = BOT_USER_ID
    /\ ~ev.manager
    /\ invites = {<<"C1", BOT_USER_ID>>}

\* C20: the store records, per channel, the actor of the latest explicit
\* blam as the channel's manager, and the member-left handler consults that
\* record: right after a blam by A in a channel, a leave in that channel is
\* taken to be a manager's doing exactly when its actor is A.
C20_ManagerIsLastBlamActor ==
    [][(/\ ev.kind = "blam"
        /\ ev.db = "ok"
        /\ ev'.kind = "member_left"
        /\ ev'.channel = ev.channel)
       => (ev'.manager <=> ev'.actor = ev.actor)]_vars

\* C21: when writing the new level fails, the policy-set command answers its
\* error line and does nothing more: no live sweep is started and no kick is
\* sent, also when the level was 0 and a non-zero level was asked for.
C21_FailedSetStopsCommand ==
    (ev.kind = "idv_set" /\ ev.db = "error") =>
        /\ reply = "Error setting IDV requirement."
        /\ channel_filters[ev.channel] = ev.old_level
        /\ ev.sweeps = 0
        /\ task = Idle
        /\ kicks = <<>>

\* C22: reading the level of a channel gives 0 when it was never set and the
\* value of the latest set otherwise; a stored level is 0, 1 or 2; setting the
\* level of one channel leaves the level of every other channel, the blam list
\* and the whitelist as they were.
C22_LevelStore ==
    [][/\ ev'.kind = "get_level" =>
            /\ ev'.levelnum =
                  IF task.last[ev'.channel] = -1 THEN 0 ELSE task.last[ev'.channel]
            /\ ev'.levelnum = get_idv_required_level(ev'.channel)
       /\ \A c \in AllChannels : SelectLevel(task'.filters, c) \in {0, 1, 2}
       /\ ev'.kind = "set_level" =>
            /\ \A c \in AllChannels \ {ev'.channel} :
                   /\ SelectLevel(task'.filters, c) = SelectLevel(task.filters, c)
                   /\ channel_filters'[c] = channel_filters[c]
            /\ channel_blammed' = channel_blammed
            /\ channel_whitelist' = channel_whitelist]_vars

C22_Witness ==
    /\ task.mode = "levels"
    /\ ev.kind = "get_level" /\ ev.channel = "C1" /\ ev.levelnum = 2
    /\ Len(task.filters) = 2
    /\ SelectLevel(task.filters, "G1") = 1
    /\ channel_blammed # {} /\ channel_whitelist # {}

\* C23: in a live sweep every flagged user gets a kick attempt whatever the
\* attempts for the other flagged users did (primary failed, fallback failed,
\* both failed, an exception left the call), and the command ends without a
\* failure of a kick being raised to it: when nothing is left to run, every
\* call has made its primary attempt and the handler has logged and returned.
C23_EveryFlaggedAttempted ==
    (task.mode = "gather" /\ ~ENABLED GatherNext) =>
        /\ \A i \in 1..Len(task.calls) :
               /\ task.calls[i].primary # NONE
               /\ task.calls[i].pc \in {"returned", "raised"}
        /\ task.handler \in {"logged_count", "logged_error"}
        /\ reply = NONE

C23_Witness ==
    /\ task.mode = "gather"
    /\ ~ENABLED GatherNext
    /\ Len(task.calls) = 2
    /\ task.calls[1] = KickCoro("raised", "transport", "other_error")
    /\ task.calls[2] = KickCoro("returned", "ok", NONE)
    /\ task.handler = "logged_error"
    /\ ev.kind = "gather_xoxc" /\ ev.user = task.toblam[2]

\* C24: a live sweep does not read the level again once it has started: when
\* it ends, one kick goes out for every member it flagged, in the order it
\* flagged them, whatever level the channel has by then, and the tier it
\* judges by is the one it started with.
C24_SweepKeepsItsLevel ==
    [][/\ (task.mode = "live" /\ ev'.kind = "sweep_done") =>
              kicks' = [i \in 1..Len(task.toblam) |-> <<task.channel, task.toblam[i]>>]
       /\ (task.mode = "live" /\ ev'.kind = "sweep_step") =>
              /\ ev'.levelnum = task.levelnum
              /\ task'.levelnum = task.levelnum]_vars

\* The second command has just written level 0 over the level the sweep had
\* stored, the sweep has evaluated every member and flagged some: its next step
\* is the kick, in a state whose stored level is 0.
C24_Witness ==
    /\ task.mode = "live"
    /\ ev.kind = "racing_set" /\ ev.levelnum = 0 /\ ev.old_level = task.levelnum
    /\ get_idv_required_level(task.channel) = 0
    /\ Len(task.seen) = Len(task.users)
    /\ Len(task.toblam) >= 1

\* C25: in one sweep, dry run or live, at most 20 lookups are in flight at a
\* time however many members the channel has, and a lookup kept waiting is
\* admitted when a slot frees, so that the sweep does not come to rest before
\* every member has been evaluated.
C25_GateBoundsAndAdmits ==
    task.mode = "gate" =>
        /\ InFlight <= SEMAPHORE_LIMIT
        /\ ~ENABLED GateNext => task.done = task.n

\* C26: the set of known bots and the set of known humans never share a user,
\* also when two classifications of one user run at once; and a step of
\* user_is_bot for a user who is already in one of the sets sends no query,
\* and when it returns, it returns what the set says.
C26_MemoIsFinal ==
    /\ [](task.mode = "bots" => task.botcache \cap task.usercache = {})
    /\ [][(task.mode = "bots" /\ ev'.user \in task.botcache \cup task.usercache) =>
              /\ ev'.count = 0
              /\ ev'.is_bot # NONE =>
                     ev'.is_bot = BotWord(ev'.user \in task.botcache)]_vars

\* C27: user_is_bot asks the cookie-session endpoint first and users.info only
\* when the first is unavailable or failed; when users.info fails too the call
\* returns False, raises nothing and leaves both sets as they were, so that the
\* next call for that user sends a query again.
C27_FallbackThenFailOpen ==
    [][task.mode = "bots" =>
        /\ (ev'.kind = "bot_call" /\ ev'.count = 1 /\ task.creds) =>
               ev'.verdict = "xoxc"
        /\ ev'.verdict = "users_info" =>
               \/ ev'.kind = "bot_call" /\ ~task.creds
               \/ ev'.kind = "bot_xoxc" /\ ev'.scan \in {"not_ok", "exception"}
        /\ (ev'.kind = "bot_users_info" /\ ev'.scan = "error") =>
               /\ ev'.is_bot = "human"
               /\ reply' # "RAISE"
               /\ task'.botcache = task.botcache
               /\ task'.usercache = task.usercache
        /\ (ev'.kind = "bot_call"
              /\ ev'.user \notin task.botcache \cup task.usercache) =>
               ev'.count = 1]_vars

\* Both paths have failed for a bot: it was reported human and is in no set.
C27_Witness ==
    /\ task.mode = "bots" /\ task.creds
    /\ ev.kind = "bot_users_info" /\ ev.scan = "error" /\ ev.is_bot = "human"
    /\ task.truth[ev.user]
    /\ ev.user \notin task.botcache \cup task.usercache

\* C28: the verdict cache is keyed by the user id alone: while an entry of a
\* completed lookup for a user is held, a verdict request for that user, from
\* whatever trigger and for whatever tier, sends no outbound call and uses a
\* held status; a request for a user without entry sends exactly one call.
C28_CacheKeyedByUser ==
    [][(task.mode = "cache" /\ ev'.kind = "idv_call") =>
        LET held == {task.cache[key] :
                        key \in {x \in (DbUsers \X Loggers) : x[1] = ev'.user}} \ {NONE}
        IN IF held # {}
           THEN ev'.count = 0 /\ ev'.scan \in held
           ELSE ev'.count = 1]_vars

\* C29: over the same members, whitelist, classifier answers and oracle
\* answers, the count of the dry run for level 1 or 2 is the number of kicks
\* the live sweep sends on the change from 0 to that level (neither raises
\* unless the other does), and the dry run for level 0 counts 0.
C29_DryRunMatchesSweep ==
    task.mode = "pair" =>
        /\ (task.dry = "raised") = (task.live = "raised")
        /\ task.live = "running" => task.count = Len(task.toblam)
        /\ (ev.kind = "pair_done" /\ ev.levelnum \in {1, 2}) =>
               /\ task.live = "done"
               /\ ev.count = Len(kicks)
        /\ task.levelnum = 0 => task.count = 0 /\ task.live = "none"

\* A pair that ended with a count and a kick, over a list with the operator
\* as an unverified human and a whitelisted member in it.
C29_Witness ==
    /\ task.mode = "pair" /\ ev.kind = "pair_done" /\ ev.levelnum = 2
    /\ ev.count = 1 /\ Len(kicks) = 1
    /\ \E i \in 1..Len(task.seen) :
           task.seen[i] = Observation(ADMIN_ID, "human", "fail")
    /\ \E i \in 1..Len(task.seen) :
           /\ task.seen[i].user \in list_whitelisted(task.channel)
           /\ task.seen[i].is_bot = "human" /\ task.seen[i].verdict = "fail"

\* C30: an explicit blam stores its entry before it attempts the kick: when
\* add_blam fails no kick is attempted, a kick goes out only with the entry
\* stored, and a member-joined event of that user in that channel handled
\* after the kick finds the entry, so that the user who rejoins is kicked
\* again.
C30_BlamCommittedBeforeKick ==
    [][/\ (ev'.kind = "blam" /\ ev'.db = "error") => kicks' = <<>>
       /\ (ev'.kind = "blam" /\ kicks' # <<>>) =>
              <<ev'.channel, ev'.user>> \in channel_blammed'
       /\ (/\ ev.kind = "blam" /\ kicks # <<>>
           /\ ev'.kind = "member_joined"
           /\ ev'.channel = ev.channel /\ ev'.user = ev.user) =>
              /\ ev'.user \in list_blammed(ev'.channel)
              /\ kicks' = <<<<ev.channel, ev.user>>>>]_vars

====
